---------------------------- MODULE Spec2Model ----------------------------
(* SellerBot cart / inventory core.                                        *)
(*                                                                         *)
(* The relational store (products.stock, carts, cart_items) is the shared  *)
(* state.  Every request handler of Controllers/controller_api.py runs on  *)
(* a worker; every DAO call of Dao/seller_dao.py is one transaction opened *)
(* by get_cursor, whose statements are separate steps.  The store behaves  *)
(* as PostgreSQL at its default isolation level (READ COMMITTED): a        *)
(* statement reads committed rows, an UPDATE or DELETE locks the rows it   *)
(* touches until its transaction ends, and the writes of a transaction     *)
(* become visible to the others together, at commit.                       *)
EXTENDS Integers, Sequences, FiniteSets, TLC

(* ------------------------------ bounds -------------------------------- *)
NWorkers == 2
NProducts == 2
NPhones == 2
MaxCarts == 3
MaxItems == 2
MaxRequests == 2
MaxClock == 2

Workers == 1..NWorkers
Products == 1..NProducts
Phones == 1..NPhones
CartIds == 1..MaxCarts
Keys == CartIds \X Products

(* Stock a product may hold when the service starts. *)
InitStocks == {60, 200}
(* Rows of cart 1 for product 1 when the service starts. *)
InitLines == {<<>>, <<100>>}
(* Signed quantities a request item may carry. *)
Quantities == {-100, -50, -30, 0, 30, 50, 100}

(* ---------------------- program constants / helpers ------------------- *)
ALLOWED_QUANTITIES == {50, 100, 200}

abs(n) == IF n < 0 THEN -n ELSE n

(* Variant: a range check instead of membership in the allowed lots. *)
validate_quantity_range(qty) == qty >= 1 /\ qty <= 200

(* Variant: any positive quantity passes. *)
validate_quantity_positive(qty) == qty > 0

validate_quantity(qty) == qty \in ALLOWED_QUANTITIES

(* Composite uniqueness of cart_items(cart_id, product_id) and uniqueness  *)
(* of carts.phone_number: the schema is not part of the sources.           *)
(* Variant: cart_items has no uniqueness constraint. *)
NoUniqueLine == FALSE
UniqueLine == TRUE
(* Variant: carts has no uniqueness constraint on the phone number. *)
NoUniquePhone == FALSE
UniquePhone == TRUE

VARIABLES
    stock,      \* products.stock         : [Products -> Int]
    lines,      \* cart_items rows        : [Keys -> Seq(Int)], one qty per row
    carts,      \* carts.phone_number     : [CartIds -> Phones \cup {0}], 0 = no row
    nextId,     \* the serial of carts.id
    pc,         \* position of each worker in its handler
    req,        \* the request a worker serves
    idx,        \* index of the item being processed
    cart_id,    \* the handler's cart_id local
    tx,         \* uncommitted writes of the worker's open transaction
    status,     \* HTTP status of the finished request (0 while running)
    err,        \* the exception that ended the request ("" if none)
    pre,        \* committed store when the request was received
    stock0,     \* stock when the service started
    nreq,       \* requests received so far
    created_at, \* carts.created_at      : [CartIds -> Nat]
    updated_at, \* carts.updated_at      : [CartIds -> Nat]
    now,        \* the clock of the store, read by NOW()
    pool,       \* connections free in SellerDao._db_pool
    lines0,     \* cart_items rows when the service started
    VERIFY_TOKEN,   \* os.getenv("VERIFY_TOKEN") of the API process
    query_params,   \* hub.mode, hub.verify_token, hub.challenge of GET /webhook
    vw_pc,          \* position of the GET /webhook request
    vw_response,    \* <<status_code, content>> answered to GET /webhook
    chat_sessions,  \* AIService.chat_sessions: the phones with a ChatSession
    ai_pc,          \* position of get_response
    ai_phone,       \* phone_number argument of get_response (0 when idle)
    iteration,      \* the loop counter of get_response
    response,       \* the last response of chat.send_message
    function_calls, \* names of the function calls of the response
    function_responses, \* <<name, result>> of the calls executed so far
    exc,            \* <<status_code, code>> of the exception caught
    ai_result,      \* the string get_response returned ("" while running)
    rounds          \* function-response messages sent for this user message

vars == <<stock, lines, carts, nextId, pc, req, idx, cart_id, tx, status, err,
          pre, stock0, nreq, created_at, updated_at, now, pool, lines0,
          VERIFY_TOKEN, query_params, vw_pc, vw_response,
          chat_sessions, ai_pc, ai_phone, iteration, response, function_calls,
          function_responses, exc, ai_result, rounds>>

(* The variables of the cart API, of GET /webhook and of AIService. *)
api == <<stock, lines, carts, nextId, pc, req, idx, cart_id, tx, status, err,
         pre, stock0, nreq, created_at, updated_at, now, pool, lines0>>
hook == <<VERIFY_TOKEN, query_params, vw_pc, vw_response>>
bot == <<chat_sessions, ai_pc, ai_phone, iteration, response, function_calls,
         function_responses, exc, ai_result, rounds>>

store == <<stock, lines, carts, created_at, updated_at>>

Item(p, q) == [product_id |-> p, qty |-> q]

(* Item lists of at most n items, each item a pair <<product_id, qty>>. *)
ItemLists(n) == UNION {[1..m -> Products \X Quantities] : m \in 0..n}

(* The List[CartItemRequest] of a request body. *)
Items(l) == [i \in 1..Len(l) |-> Item(l[i][1], l[i][2])]

NoReq == [kind |-> "none", phone_number |-> 0, items |-> <<>>]
NoTx == [line |-> "none", lineVal |-> <<>>, touch |-> FALSE,
         stockW |-> FALSE, stockDelta |-> 0, cart |-> 0, at |-> 0]
NoPre == [stock |-> [p \in Products |-> 0],
          lines |-> [k \in Keys |-> <<>>],
          carts |-> [c \in CartIds |-> 0],
          updated_at |-> [c \in CartIds |-> 0], now |-> 0]
Snapshot == [stock |-> stock, lines |-> lines, carts |-> carts,
             updated_at |-> updated_at, now |-> now]

CurItem(w) == req[w].items[idx[w]]
Key(w) == <<cart_id[w], CurItem(w).product_id>>


(* --------------------------- control helpers -------------------------- *)
Goto(l) == [pc |-> l, status |-> 0, err |-> ""]
Raise(e) == [pc |-> "done", status |-> 500, err |-> e]
Return(code) == [pc |-> "done", status |-> code, err |-> ""]

Jump(w, g) ==
    /\ pc' = [pc EXCEPT ![w] = g.pc]
    /\ status' = [status EXCEPT ![w] = g.status]
    /\ err' = [err EXCEPT ![w] = g.err]

(* DatabaseService.add_to_cart up to its first store access. *)
add_to_cart(qty) ==
    IF validate_quantity(abs(qty)) THEN Goto("atc_read")
    ELSE Raise("InvalidLotSize")

(* DatabaseService.dismiss_to_cart up to its first store access. *)
dismiss_to_cart(qty) ==
    IF validate_quantity(qty) THEN Goto("dtc_read")
    ELSE Raise("InvalidLotSize")

(* Variant: a zero quantity takes the decrease branch. *)
update_cart_loop_le(items, i) ==
    IF i > Len(items) THEN Return(200)
    ELSE IF items[i].qty > 0 THEN add_to_cart(items[i].qty)
    ELSE IF items[i].qty <= 0 THEN dismiss_to_cart(abs(items[i].qty))
    ELSE Goto("ri_delete")

(* The item loop of update_cart, entered at item i. *)
update_cart_loop(items, i) ==
    IF i > Len(items) THEN Return(200)
    ELSE IF items[i].qty > 0 THEN add_to_cart(items[i].qty)
    ELSE IF items[i].qty < 0 THEN dismiss_to_cart(abs(items[i].qty))
    ELSE Goto("ri_delete")

(* The item loop of DatabaseService.create_cart: dao.add_item per item. *)
create_cart_loop(items, i) ==
    IF i > Len(items) THEN Return(201) ELSE Goto("ai_update")

(* Where the handler goes once the DAO call for item i - 1 returned. *)
Continue(r, i) ==
    IF r.kind = "update" THEN update_cart_loop(r.items, i)
    ELSE create_cart_loop(r.items, i)

(* ------------------------------ row locks ----------------------------- *)
(* Another open transaction has updated or deleted the rows of key k. *)
LineLocked(w, k) ==
    \E v \in Workers \ {w} : tx[v].line = "upd" /\ Key(v) = k

(* Another open transaction holds an uncommitted INSERT of key k. *)
LineInsertPending(w, k) ==
    \E v \in Workers \ {w} : tx[v].line = "ins" /\ Key(v) = k

CartLocked(w, c) ==
    \E v \in Workers \ {w} : tx[v].touch /\ cart_id[v] = c

StockLocked(w, p) ==
    \E v \in Workers \ {w} : tx[v].stockW /\ CurItem(v).product_id = p

CartInsertPending(w, phone) ==
    \E v \in Workers \ {w} : tx[v].cart # 0 /\ req[v].phone_number = phone

(* ------------------------------ get_cursor ---------------------------- *)
(* conn.commit(): the writes of the transaction reach the store together. *)
Commit(w) ==
    /\ lines' = IF tx[w].line = "upd"
                  THEN [lines EXCEPT ![Key(w)] = tx[w].lineVal]
                ELSE IF tx[w].line = "ins"
                  THEN [lines EXCEPT ![Key(w)] = @ \o tx[w].lineVal]
                ELSE lines
    /\ stock' = IF tx[w].stockW
                  THEN [stock EXCEPT ![CurItem(w).product_id] = @ + tx[w].stockDelta]
                ELSE stock
    /\ carts' = IF tx[w].cart # 0
                  THEN [carts EXCEPT ![tx[w].cart] = req[w].phone_number]
                ELSE carts
    /\ created_at' = IF tx[w].cart # 0
                       THEN [created_at EXCEPT ![tx[w].cart] = tx[w].at]
                     ELSE created_at
    /\ updated_at' = IF tx[w].cart # 0
                       THEN [updated_at EXCEPT ![tx[w].cart] = tx[w].at]
                     ELSE IF tx[w].touch
                       THEN [updated_at EXCEPT ![cart_id[w]] = tx[w].at]
                     ELSE updated_at
    /\ tx' = [tx EXCEPT ![w] = NoTx]

(* Variant: the line statement persists although the transaction failed. *)
RollbackKeepsLine(w) ==
    /\ tx' = [tx EXCEPT ![w] = NoTx]
    /\ lines' = IF tx[w].line = "upd"
                  THEN [lines EXCEPT ![Key(w)] = tx[w].lineVal]
                ELSE IF tx[w].line = "ins"
                  THEN [lines EXCEPT ![Key(w)] = @ \o tx[w].lineVal]
                ELSE lines
    /\ UNCHANGED <<stock, carts, created_at, updated_at>>

(* conn.rollback(): none of the transaction's writes reaches the store. *)
Rollback(w) ==
    /\ tx' = [tx EXCEPT ![w] = NoTx]
    /\ UNCHANGED store

(* SimpleConnectionPool(1, 10, ...): the connections of the pool. *)
maxconn == 10

(* The positions at which a DAO call has not yet taken its connection: the *)
(* step from there is getconn() followed by the first statement.           *)
FirstPcs == {"ai_update", "di_update", "ri_delete", "cc_insert"}

(* ------------------------------- Init --------------------------------- *)
(* Python's None, as a query parameter, an attribute or an environment     *)
(* value that is absent.                                                   *)
None == "None"

NoParams == [mode |-> None, token |-> None, challenge |-> None]
NoResponse == <<FALSE, <<>>, "">>
NoExc == <<-1, -1>>

(* No GET /webhook is being served. *)
HookIdle ==
    /\ query_params = NoParams
    /\ vw_pc = "idle"
    /\ vw_response = <<0, "">>

(* AIService.__init__: self.chat_sessions = {}; no message is being served. *)
BotIdle ==
    /\ chat_sessions = {}
    /\ ai_pc = "idle"
    /\ ai_phone = 0
    /\ iteration = 0
    /\ response = NoResponse
    /\ function_calls = <<>>
    /\ function_responses = <<>>
    /\ exc = NoExc
    /\ ai_result = ""
    /\ rounds = 0

(* One cart exists (phone 1, id 1), empty or holding product 1; the other  *)
(* phones have no cart.                                                   *)
Init ==
    /\ VERIFY_TOKEN = "secret"
    /\ HookIdle
    /\ BotIdle
    /\ stock \in [Products -> InitStocks]
    /\ stock0 = stock
    /\ \E l \in InitLines :
         lines = [k \in Keys |-> IF k = <<1, 1>> THEN l ELSE <<>>]
    /\ carts = [c \in CartIds |-> IF c = 1 THEN 1 ELSE 0]
    /\ nextId = 2
    /\ pc = [w \in Workers |-> "idle"]
    /\ req = [w \in Workers |-> NoReq]
    /\ idx = [w \in Workers |-> 0]
    /\ cart_id = [w \in Workers |-> 0]
    /\ tx = [w \in Workers |-> NoTx]
    /\ status = [w \in Workers |-> 0]
    /\ err = [w \in Workers |-> ""]
    /\ pre = [w \in Workers |-> NoPre]
    /\ nreq = 0
    /\ created_at = [c \in CartIds |-> 0]
    /\ updated_at = [c \in CartIds |-> 0]
    /\ now = 0
    /\ pool = maxconn
    /\ lines0 = lines

(* --------------------------- request entry ---------------------------- *)
(* PATCH /carts/{cart_phone} arrives: update_cart(cart_update). *)
ReceiveUpdate(w, phones, lists) ==
    /\ pc[w] = "idle"
    /\ nreq < MaxRequests
    /\ \E ph \in phones, l \in lists :
         req' = [req EXCEPT ![w] =
                   [kind |-> "update", phone_number |-> ph, items |-> Items(l)]]
    /\ Jump(w, Goto("uc_get_cart"))
    /\ idx' = [idx EXCEPT ![w] = 1]
    /\ pre' = [pre EXCEPT ![w] = Snapshot]
    /\ nreq' = nreq + 1
    /\ UNCHANGED <<stock, lines, carts, created_at, updated_at, now, pool, lines0, hook, bot,
                   nextId, cart_id, tx, stock0>>

(* Variant: the items are validated by absolute value, as add_to_cart does. *)
ReceiveCreate_abs(w, phones, lists) ==
    /\ pc[w] = "idle"
    /\ nreq < MaxRequests
    /\ nextId + Cardinality({v \in Workers : pc[v] = "cc_insert"}) <= MaxCarts
    /\ \E ph \in phones, l \in lists :
         /\ req' = [req EXCEPT ![w] =
                      [kind |-> "create", phone_number |-> ph, items |-> Items(l)]]
         /\ Jump(w, IF \A i \in 1..Len(l) : validate_quantity(abs(Items(l)[i].qty))
                      THEN Goto("cc_insert")
                    ELSE Raise("InvalidLotSize"))
    /\ idx' = [idx EXCEPT ![w] = 1]
    /\ pre' = [pre EXCEPT ![w] = Snapshot]
    /\ nreq' = nreq + 1
    /\ UNCHANGED <<stock, lines, carts, created_at, updated_at, now, pool, lines0, hook, bot,
                   nextId, cart_id, tx, stock0>>

(* Variant: only the first initial item is validated. *)
ReceiveCreate_first(w, phones, lists) ==
    /\ pc[w] = "idle"
    /\ nreq < MaxRequests
    /\ nextId + Cardinality({v \in Workers : pc[v] = "cc_insert"}) <= MaxCarts
    /\ \E ph \in phones, l \in lists :
         /\ req' = [req EXCEPT ![w] =
                      [kind |-> "create", phone_number |-> ph, items |-> Items(l)]]
         /\ Jump(w, IF \A i \in 1..Len(l) : i = 1 => validate_quantity(Items(l)[i].qty)
                      THEN Goto("cc_insert")
                    ELSE Raise("InvalidLotSize"))
    /\ idx' = [idx EXCEPT ![w] = 1]
    /\ pre' = [pre EXCEPT ![w] = Snapshot]
    /\ nreq' = nreq + 1
    /\ UNCHANGED <<stock, lines, carts, created_at, updated_at, now, pool, lines0, hook, bot,
                   nextId, cart_id, tx, stock0>>

(* POST /carts arrives: create_cart(cart_data), then                      *)
(* DatabaseService.create_cart validates every item before any DAO call.  *)
ReceiveCreate(w, phones, lists) ==
    /\ pc[w] = "idle"
    /\ nreq < MaxRequests
    /\ nextId + Cardinality({v \in Workers : pc[v] = "cc_insert"}) <= MaxCarts
    /\ \E ph \in phones, l \in lists :
         /\ req' = [req EXCEPT ![w] =
                      [kind |-> "create", phone_number |-> ph, items |-> Items(l)]]
         /\ Jump(w, IF \A i \in 1..Len(l) : validate_quantity(Items(l)[i].qty)
                      THEN Goto("cc_insert")
                    ELSE Raise("InvalidLotSize"))
    /\ idx' = [idx EXCEPT ![w] = 1]
    /\ pre' = [pre EXCEPT ![w] = Snapshot]
    /\ nreq' = nreq + 1
    /\ UNCHANGED <<stock, lines, carts, created_at, updated_at, now, pool, lines0, hook, bot,
                   nextId, cart_id, tx, stock0>>

(* The response is sent; the worker is free again. *)
Respond(w) ==
    /\ pc[w] = "done"
    /\ pc' = [pc EXCEPT ![w] = "idle"]
    /\ req' = [req EXCEPT ![w] = NoReq]
    /\ idx' = [idx EXCEPT ![w] = 0]
    /\ cart_id' = [cart_id EXCEPT ![w] = 0]
    /\ status' = [status EXCEPT ![w] = 0]
    /\ err' = [err EXCEPT ![w] = ""]
    /\ pre' = [pre EXCEPT ![w] = NoPre]
    /\ UNCHANGED <<stock, lines, carts, created_at, updated_at, now, pool, lines0, hook, bot,
                   nextId, tx, stock0, nreq>>

(* ------------------------------- reads -------------------------------- *)
(* SellerDao.get_cart_header: the ids of the carts of a phone number. *)
get_cart_header(phone) == {c \in CartIds : carts[c] = phone}

(* The price columns of products: per-unit price at each lot size. *)
price_fivety_units(p) == 30 + p
price_one_hundred_units(p) == 20 + p
price_two_hundred_units(p) == 10 + p

(* Variant: the CASE has no ELSE; an unlisted quantity gets no price. *)
applied_price_no_else(p, qty) ==
    CASE qty = 50 -> price_fivety_units(p)
      [] qty = 100 -> price_one_hundred_units(p)
      [] qty = 200 -> price_two_hundred_units(p)
      [] OTHER -> 0

(* Variant: every quantity is priced at the 50-unit price. *)
applied_price_flat(p, qty) == price_fivety_units(p)

(* get_cart_items: CASE ci.qty WHEN 50 .. WHEN 100 .. WHEN 200 .. ELSE ..   *)
applied_price(p, qty) ==
    CASE qty = 50 -> price_fivety_units(p)
      [] qty = 100 -> price_one_hundred_units(p)
      [] qty = 200 -> price_two_hundred_units(p)
      [] OTHER -> price_fivety_units(p)

(* One row of get_cart_items. *)
CartItemRow(p, qty) ==
    [product_id |-> p, qty |-> qty,
     applied_price |-> applied_price(p, qty),
     subtotal |-> applied_price(p, qty) * qty]

(* SellerDao.get_cart_items: the rows of cart c, products from p upwards. *)
RECURSIVE CartItemRows(_, _)
CartItemRows(c, p) ==
    IF p > NProducts THEN <<>>
    ELSE [i \in 1..Len(lines[<<c, p>>]) |-> CartItemRow(p, lines[<<c, p>>][i])]
           \o CartItemRows(c, p + 1)

get_cart_items(c) == CartItemRows(c, 1)

(* Variant: the 404 is caught by the generic handler and answered as 500. *)
get_cart_generic_error(w) ==
    /\ pc[w] = "uc_get_cart"
    /\ IF get_cart_header(req[w].phone_number) = {}
         THEN /\ Jump(w, Raise("CartNotFound"))
              /\ UNCHANGED cart_id
         ELSE /\ \E c \in get_cart_header(req[w].phone_number) :
                   cart_id' = [cart_id EXCEPT ![w] = c]
              /\ Jump(w, update_cart_loop(req[w].items, 1))
    /\ UNCHANGED <<stock, lines, carts, created_at, updated_at, now, pool, lines0, hook, bot,
                   nextId, req, idx, tx, pre, stock0, nreq>>

(* update_cart: cart_id = db_service.get_cart(phone); 404 when there is none. *)
get_cart(w) ==
    /\ pc[w] = "uc_get_cart"
    /\ IF get_cart_header(req[w].phone_number) = {}
         THEN /\ Jump(w, [pc |-> "done", status |-> 404, err |-> "CartNotFound"])
              /\ UNCHANGED cart_id
         ELSE /\ \E c \in get_cart_header(req[w].phone_number) :
                   cart_id' = [cart_id EXCEPT ![w] = c]
              /\ Jump(w, update_cart_loop(req[w].items, 1))
    /\ UNCHANGED <<stock, lines, carts, created_at, updated_at, now, pool, lines0, hook, bot,
                   nextId, req, idx, tx, pre, stock0, nreq>>

(* Variant: the stock must exceed the quantity. *)
stock_check_le(product_stock, qty) ==
    IF product_stock <= qty THEN Raise("InsufficientStock")
    ELSE Goto("ai_update")

(* add_to_cart: if product['stock'] < qty: raise; else dao.add_item(...). *)
stock_check(product_stock, qty) ==
    IF product_stock < qty THEN Raise("InsufficientStock")
    ELSE Goto("ai_update")

(* Variant: the product lookup already takes the quantity from the stock. *)
atc_read_reserve(w) ==
    /\ pc[w] = "atc_read"
    /\ Jump(w, stock_check(stock[CurItem(w).product_id], CurItem(w).qty))
    /\ stock' = [stock EXCEPT ![CurItem(w).product_id] = @ - CurItem(w).qty]
    /\ UNCHANGED <<lines, carts, created_at, updated_at, now, pool, lines0, hook, bot,
                   nextId, req, idx, cart_id, tx, pre, stock0, nreq>>

(* add_to_cart: product = dao.get_product_by_id(...), then the check. *)
atc_read(w) ==
    /\ pc[w] = "atc_read"
    /\ Jump(w, stock_check(stock[CurItem(w).product_id], CurItem(w).qty))
    /\ UNCHANGED <<stock, lines, carts, created_at, updated_at, now, pool, lines0, hook, bot,
                   nextId, req, idx, cart_id, tx, pre,
                   stock0, nreq>>

(* Variant: the operands of the quantity comparison are swapped. *)
item_check_swapped(rows, qty) ==
    IF rows = <<>> THEN Raise("ItemNotInCart")
    ELSE IF qty < rows[1] THEN Raise("InsufficientCartQuantity")
    ELSE IF rows[1] - qty = 0 THEN Goto("ri_delete")
    ELSE Goto("di_update")

(* Variant: a missing row is not detected. *)
item_check_absent_ok(rows, qty) ==
    IF rows = <<>> THEN Goto("di_update")
    ELSE IF rows[1] < qty THEN Raise("InsufficientCartQuantity")
    ELSE IF rows[1] - qty = 0 THEN Goto("ri_delete")
    ELSE Goto("di_update")

(* dismiss_to_cart: the branch on the row get_cart_one_item returned. *)
item_check(rows, qty) ==
    IF rows = <<>> THEN Raise("ItemNotInCart")
    ELSE IF rows[1] < qty THEN Raise("InsufficientCartQuantity")
    ELSE IF rows[1] - qty = 0 THEN Goto("ri_delete")
    ELSE Goto("di_update")

(* dismiss_to_cart: item = dao.get_cart_one_item(...), then the branch. *)
dtc_read(w) ==
    /\ pc[w] = "dtc_read"
    /\ Jump(w, item_check(lines[Key(w)], abs(CurItem(w).qty)))
    /\ UNCHANGED <<stock, lines, carts, created_at, updated_at, now, pool, lines0, hook, bot,
                   nextId, req, idx, cart_id, tx, pre,
                   stock0, nreq>>

(* ------------------------- SellerDao.add_item ------------------------- *)
(* A statement of an open transaction: only pc and tx of the worker move. *)
Stmt(w, next, newtx) ==
    /\ pc' = [pc EXCEPT ![w] = next]
    /\ tx' = [tx EXCEPT ![w] = newtx]
    /\ UNCHANGED <<stock, lines, carts, created_at, updated_at, now, pool, lines0, hook, bot,
                   nextId, req, idx, cart_id, status, err,
                   pre, stock0, nreq>>

(* getconn() and the first statement of a DAO call: the transaction starts *)
(* and NOW() is its start time.                                            *)
Open(w, next, newtx) ==
    /\ pc' = [pc EXCEPT ![w] = next]
    /\ tx' = [tx EXCEPT ![w] = [newtx EXCEPT !.at = now]]
    /\ pool' = pool - 1
    /\ UNCHANGED <<stock, lines, carts, created_at, updated_at, now, lines0, hook, bot,
                   nextId, req, idx, cart_id, status, err, pre, stock0, nreq>>

(* The DAO call returned: the transaction commits and the handler goes on *)
(* with the next item.                                                    *)
Returned(w) ==
    /\ Commit(w)
    /\ idx' = [idx EXCEPT ![w] = @ + 1]
    /\ Jump(w, Continue(req[w], idx[w] + 1))
    /\ pool' = pool + 1
    /\ UNCHANGED <<nextId, req, cart_id, pre, stock0, nreq, now, lines0, hook, bot>>

(* Variant: the handler swallows the exception and goes on with the next   *)
(* item.                                                                   *)
Failed_continue(w, e) ==
    /\ Rollback(w)
    /\ idx' = [idx EXCEPT ![w] = @ + 1]
    /\ Jump(w, Continue(req[w], idx[w] + 1))
    /\ pool' = IF pc[w] \in FirstPcs THEN pool ELSE pool + 1
    /\ UNCHANGED <<nextId, req, cart_id, pre, stock0, nreq, now, lines0, hook, bot>>

(* Variant: get_cursor has no finally clause; a failed block keeps its      *)
(* connection.                                                             *)
Failed_leak(w, e) ==
    /\ Rollback(w)
    /\ Jump(w, Raise(e))
    /\ pool' = pool
    /\ UNCHANGED <<nextId, req, idx, cart_id, pre, stock0, nreq, now, lines0, hook, bot>>

(* The exception of a statement leaves get_cursor: rollback, re-raise; the *)
(* handler answers 500.                                                    *)
Failed(w, e) ==
    /\ Rollback(w)
    /\ Jump(w, Raise(e))
    /\ pool' = IF pc[w] \in FirstPcs THEN pool ELSE pool + 1
    /\ UNCHANGED <<nextId, req, idx, cart_id, pre, stock0, nreq, now, lines0, hook, bot>>

(* Variant: the UPDATE sets the quantity instead of adding to it. *)
ai_update_set(w) ==
    /\ pc[w] = "ai_update"
    /\ ~LineLocked(w, Key(w))
    /\ LET rows == lines[Key(w)] IN
       IF Len(rows) = 0
         THEN Open(w, "ai_insert", tx[w])
       ELSE Open(w, "ai_touch",
                 [tx[w] EXCEPT !.line = "upd",
                    !.lineVal = [i \in 1..Len(rows) |-> CurItem(w).qty]])

(* Variant: the new quantity is computed from the rows the request read    *)
(* when it started, not from the rows the UPDATE finds.                    *)
ai_update_stale(w) ==
    /\ pc[w] = "ai_update"
    /\ ~LineLocked(w, Key(w))
    /\ LET rows == lines[Key(w)]
           old == pre[w].lines[Key(w)] IN
       IF Len(rows) = 0
         THEN Open(w, "ai_insert", tx[w])
       ELSE Open(w, "ai_touch",
                 [tx[w] EXCEPT !.line = "upd",
                    !.lineVal = [i \in 1..Len(rows) |->
                                   (IF i <= Len(old) THEN old[i] ELSE rows[i])
                                     + CurItem(w).qty]])

(* UPDATE cart_items SET qty = qty + %s WHERE cart_id = %s AND product_id = %s *)
ai_update(w) ==
    /\ pc[w] = "ai_update"
    /\ ~LineLocked(w, Key(w))
    /\ LET rows == lines[Key(w)] IN
       IF Len(rows) = 0
         THEN Open(w, "ai_insert", tx[w])
       ELSE Open(w, "ai_touch",
                 [tx[w] EXCEPT !.line = "upd",
                    !.lineVal = [i \in 1..Len(rows) |-> rows[i] + CurItem(w).qty]])

(* if cur.rowcount == 0: INSERT INTO cart_items (cart_id, product_id, qty) *)
ai_insert(w) ==
    /\ pc[w] = "ai_insert"
    /\ UniqueLine => ~LineInsertPending(w, Key(w)) /\ ~LineLocked(w, Key(w))
    /\ IF UniqueLine /\ lines[Key(w)] # <<>>
         THEN Failed(w, "IntegrityError")
       ELSE Stmt(w, "ai_touch",
                 [tx[w] EXCEPT !.line = "ins", !.lineVal = <<CurItem(w).qty>>])

(* UPDATE carts SET updated_at = NOW() WHERE id = %s *)
ai_touch(w) ==
    /\ pc[w] = "ai_touch"
    /\ ~CartLocked(w, cart_id[w])
    /\ Stmt(w, "ai_stock", [tx[w] EXCEPT !.touch = TRUE])

(* UPDATE products SET stock = stock - %s WHERE id = %s *)
ai_stock(w) ==
    /\ pc[w] = "ai_stock"
    /\ ~StockLocked(w, CurItem(w).product_id)
    /\ Stmt(w, "ai_commit",
            [tx[w] EXCEPT !.stockW = TRUE, !.stockDelta = - CurItem(w).qty])

ai_commit(w) ==
    /\ pc[w] = "ai_commit"
    /\ Returned(w)

(* ----------------------- SellerDao.dismiss_item ----------------------- *)
(* UPDATE cart_items SET qty = qty - %s WHERE cart_id = %s AND product_id = %s *)
di_update(w) ==
    /\ pc[w] = "di_update"
    /\ ~LineLocked(w, Key(w))
    /\ LET rows == lines[Key(w)] IN
       IF Len(rows) = 0
         THEN Open(w, "di_touch", tx[w])
       ELSE Open(w, "di_touch",
                 [tx[w] EXCEPT !.line = "upd",
                    !.lineVal = [i \in 1..Len(rows) |->
                                   rows[i] - abs(CurItem(w).qty)]])

(* Variant: dismiss_item does not touch the cart. *)
di_touch_skip(w) ==
    /\ pc[w] = "di_touch"
    /\ ~CartLocked(w, cart_id[w])
    /\ Stmt(w, "di_stock", tx[w])

(* UPDATE carts SET updated_at = NOW() WHERE id = %s *)
di_touch(w) ==
    /\ pc[w] = "di_touch"
    /\ ~CartLocked(w, cart_id[w])
    /\ Stmt(w, "di_stock", [tx[w] EXCEPT !.touch = TRUE])

(* Variant: the released quantity is subtracted from the stock. *)
di_stock_subtract(w) ==
    /\ pc[w] = "di_stock"
    /\ ~StockLocked(w, CurItem(w).product_id)
    /\ Stmt(w, "di_commit",
            [tx[w] EXCEPT !.stockW = TRUE, !.stockDelta = - abs(CurItem(w).qty)])

(* UPDATE products SET stock = stock + %s WHERE id = %s *)
di_stock(w) ==
    /\ pc[w] = "di_stock"
    /\ ~StockLocked(w, CurItem(w).product_id)
    /\ Stmt(w, "di_commit",
            [tx[w] EXCEPT !.stockW = TRUE, !.stockDelta = abs(CurItem(w).qty)])

di_commit(w) ==
    /\ pc[w] = "di_commit"
    /\ Returned(w)

(* ------------------------ SellerDao.remove_item ----------------------- *)
(* Variant: a DELETE that matches no row is reported as an error. *)
ri_delete_strict(w) ==
    /\ pc[w] = "ri_delete"
    /\ ~LineLocked(w, Key(w))
    /\ IF lines[Key(w)] = <<>>
         THEN Failed(w, "ItemNotInCart")
       ELSE Open(w, "ri_touch", [tx[w] EXCEPT !.line = "upd", !.lineVal = <<>>])

(* DELETE FROM cart_items WHERE cart_id = %s AND product_id = %s *)
ri_delete(w) ==
    /\ pc[w] = "ri_delete"
    /\ ~LineLocked(w, Key(w))
    /\ IF lines[Key(w)] = <<>>
         THEN Open(w, "ri_touch", tx[w])
       ELSE Open(w, "ri_touch", [tx[w] EXCEPT !.line = "upd", !.lineVal = <<>>])

ri_touch(w) ==
    /\ pc[w] = "ri_touch"
    /\ ~CartLocked(w, cart_id[w])
    /\ Stmt(w, "ri_commit", [tx[w] EXCEPT !.touch = TRUE])

ri_commit(w) ==
    /\ pc[w] = "ri_commit"
    /\ Returned(w)

(* --------------------- SellerDao.create_empty_cart -------------------- *)
(* Variant: the new row takes the last id handed out instead of a new one. *)
cc_insert_reuse(w) ==
    /\ pc[w] = "cc_insert"
    /\ UniquePhone => ~CartInsertPending(w, req[w].phone_number)
    /\ nextId' = nextId + 1
    /\ IF UniquePhone /\ get_cart_header(req[w].phone_number) # {}
         THEN /\ Rollback(w)
              /\ Jump(w, Raise("IntegrityError"))
              /\ pool' = pool
       ELSE /\ tx' = [tx EXCEPT ![w].cart = nextId - 1, ![w].at = now]
            /\ Jump(w, Goto("cc_commit"))
            /\ pool' = pool - 1
            /\ UNCHANGED store
    /\ UNCHANGED <<req, idx, cart_id, pre, stock0, nreq, now, lines0, hook, bot>>

(* INSERT INTO carts (created_at, updated_at, phone_number) ... RETURNING id *)
cc_insert(w) ==
    /\ pc[w] = "cc_insert"
    /\ UniquePhone => ~CartInsertPending(w, req[w].phone_number)
    /\ nextId' = nextId + 1
    /\ IF UniquePhone /\ get_cart_header(req[w].phone_number) # {}
         THEN /\ Rollback(w)
              /\ Jump(w, Raise("IntegrityError"))
              /\ pool' = pool
       ELSE /\ tx' = [tx EXCEPT ![w].cart = nextId, ![w].at = now]
            /\ Jump(w, Goto("cc_commit"))
            /\ pool' = pool - 1
            /\ UNCHANGED store
    /\ UNCHANGED <<req, idx, cart_id, pre, stock0, nreq, now, lines0, hook, bot>>

(* The block commits; cart_id = self.dao.create_empty_cart(phone). *)
cc_commit(w) ==
    /\ pc[w] = "cc_commit"
    /\ Commit(w)
    /\ cart_id' = [cart_id EXCEPT ![w] = tx[w].cart]
    /\ Jump(w, create_cart_loop(req[w].items, 1))
    /\ pool' = pool + 1
    /\ UNCHANGED <<nextId, req, idx, pre, stock0, nreq, now, lines0, hook, bot>>

(* ------------------- a statement or the commit fails ------------------ *)
TxPcs == {"ai_update", "ai_insert", "ai_touch", "ai_stock", "ai_commit",
          "di_update", "di_touch", "di_stock", "di_commit",
          "ri_delete", "ri_touch", "ri_commit", "cc_insert", "cc_commit"}

(* The store drops the connection or times out inside get_cursor. *)
StorageFails(w) ==
    /\ pc[w] \in TxPcs
    /\ Failed(w, "StorageUnavailable")

(* --------------------------- specifications --------------------------- *)
step(w) ==
    \/ get_cart(w) \/ atc_read(w) \/ dtc_read(w)
    \/ ai_update(w) \/ ai_insert(w) \/ ai_touch(w) \/ ai_stock(w) \/ ai_commit(w)
    \/ di_update(w) \/ di_touch(w) \/ di_stock(w) \/ di_commit(w)
    \/ ri_delete(w) \/ ri_touch(w) \/ ri_commit(w)
    \/ cc_insert(w) \/ cc_commit(w)
    \/ StorageFails(w)
    \/ Respond(w)

(* Concurrent workers; each request carries at most one item. *)
Next ==
    \E w \in Workers :
        \/ ReceiveUpdate(w, Phones, ItemLists(1))
        \/ ReceiveCreate(w, Phones, ItemLists(1))
        \/ step(w)

Spec == Init /\ [][Next]_vars

(* One request at a time, of up to MaxItems items. *)
NextSeq ==
    \E w \in {1} :
        \/ ReceiveUpdate(w, Phones, ItemLists(MaxItems))
        \/ ReceiveCreate(w, Phones, ItemLists(MaxItems))
        \/ step(w)

SpecSeq == Init /\ [][NextSeq]_vars

(* ------------------------------ GET requests -------------------------- *)
(* GET /products, GET /carts/{cart_phone} or GET /carts/{cart_phone}/items *)
(* arrives.                                                                *)
ReceiveGet(w, phones) ==
    /\ pc[w] = "idle"
    /\ nreq < MaxRequests
    /\ \E k \in {"get_products", "get_cart", "get_cart_items"}, ph \in phones :
         /\ req' = [req EXCEPT ![w] =
                      [kind |-> k, phone_number |-> ph, items |-> <<>>]]
         /\ Jump(w, Goto(CASE k = "get_products" -> "gp_select"
                            [] k = "get_cart" -> "gc_header"
                            [] k = "get_cart_items" -> "gi_header"))
    /\ idx' = [idx EXCEPT ![w] = 1]
    /\ pre' = [pre EXCEPT ![w] = Snapshot]
    /\ nreq' = nreq + 1
    /\ UNCHANGED <<stock, lines, carts, created_at, updated_at, now, pool, lines0, hook, bot,
                   nextId, cart_id, tx, stock0>>

(* A step of a GET handler: one SELECT in its own get_cursor block. *)
Select(w, g) ==
    /\ Jump(w, g)
    /\ UNCHANGED <<stock, lines, carts, created_at, updated_at, now, pool, lines0, hook, bot,
                   nextId, req, idx, tx, pre, stock0, nreq>>

(* get_products: db_service.search_products(active_filters), always 200. *)
gp_select(w) ==
    /\ pc[w] = "gp_select"
    /\ Select(w, Return(200))
    /\ UNCHANGED cart_id

(* get_cart (GET): 404 when the phone number has no cart, else 200. *)
gc_header(w) ==
    /\ pc[w] = "gc_header"
    /\ IF get_cart_header(req[w].phone_number) = {}
         THEN /\ Select(w, [pc |-> "done", status |-> 404, err |-> "CartNotFound"])
              /\ UNCHANGED cart_id
       ELSE /\ \E c \in get_cart_header(req[w].phone_number) :
                 cart_id' = [cart_id EXCEPT ![w] = c]
            /\ Select(w, Return(200))

(* get_cart_items (GET): db_service.get_cart(cart_phone), None without a   *)
(* cart, is passed on to db_service.get_cart_items.                        *)
gi_header(w) ==
    /\ pc[w] = "gi_header"
    /\ IF get_cart_header(req[w].phone_number) = {}
         THEN UNCHANGED cart_id
       ELSE \E c \in get_cart_header(req[w].phone_number) :
              cart_id' = [cart_id EXCEPT ![w] = c]
    /\ Select(w, Goto("gi_items"))

(* dao.get_cart_items(cart_id): the rows, none for cart_id None; 200. *)
gi_items(w) ==
    /\ pc[w] = "gi_items"
    /\ Select(w, Return(200))
    /\ UNCHANGED cart_id

(* The clock of the store advances. *)
Tick ==
    /\ now < MaxClock
    /\ now' = now + 1
    /\ UNCHANGED <<stock, lines, carts, created_at, updated_at, pool, lines0, hook, bot,
                   nextId, pc, req, idx, cart_id, tx, status, err, pre, stock0,
                   nreq>>

(* Every endpoint, one request at a time of up to MaxItems items, with the *)
(* clock running.                                                          *)
NextObs ==
    \/ \E w \in {1} :
         \/ ReceiveUpdate(w, Phones, ItemLists(MaxItems))
         \/ ReceiveCreate(w, Phones, ItemLists(MaxItems))
         \/ ReceiveGet(w, Phones)
         \/ gp_select(w) \/ gc_header(w) \/ gi_header(w) \/ gi_items(w)
         \/ step(w)
    \/ Tick

SpecObs == Init /\ [][NextObs]_vars

(* Quantities of the initial items of the carts created in SpecCreate. *)
CreateQuantities == {30, 50, 100, 200}

CreateLists(n) == UNION {[1..m -> Products \X CreateQuantities] : m \in 0..n}

(* POST /carts only, one request at a time, of up to MaxItems items. *)
NextCreate ==
    \E w \in {1} :
        \/ ReceiveCreate(w, Phones, CreateLists(MaxItems))
        \/ cc_insert(w) \/ cc_commit(w)
        \/ ai_update(w) \/ ai_insert(w) \/ ai_touch(w) \/ ai_stock(w)
        \/ ai_commit(w)
        \/ StorageFails(w)
        \/ Respond(w)

SpecCreate == Init /\ [][NextCreate]_vars

(* Cart 1 holds 150 of product 1, accumulated by earlier adds. *)
InitRace ==
    /\ VERIFY_TOKEN = "secret"
    /\ HookIdle
    /\ BotIdle
    /\ stock \in [Products -> InitStocks]
    /\ stock0 = stock
    /\ lines = [k \in Keys |-> IF k = <<1, 1>> THEN <<150>> ELSE <<>>]
    /\ lines0 = lines
    /\ carts = [c \in CartIds |-> IF c = 1 THEN 1 ELSE 0]
    /\ created_at = [c \in CartIds |-> 0]
    /\ updated_at = [c \in CartIds |-> 0]
    /\ now = 0
    /\ pool = maxconn
    /\ nextId = 2
    /\ pc = [w \in Workers |-> "idle"]
    /\ req = [w \in Workers |-> NoReq]
    /\ idx = [w \in Workers |-> 0]
    /\ cart_id = [w \in Workers |-> 0]
    /\ tx = [w \in Workers |-> NoTx]
    /\ status = [w \in Workers |-> 0]
    /\ err = [w \in Workers |-> ""]
    /\ pre = [w \in Workers |-> NoPre]
    /\ nreq = 0

(* One-item lists that decrease a line by a lot. *)
DecreaseLists == [1..1 -> Products \X {-100, -50}]

(* Concurrent PATCH requests that each decrease one line. *)
NextRace ==
    \E w \in Workers :
        \/ ReceiveUpdate(w, Phones, DecreaseLists)
        \/ get_cart(w) \/ dtc_read(w)
        \/ di_update(w) \/ di_touch(w) \/ di_stock(w) \/ di_commit(w)
        \/ ri_delete(w) \/ ri_touch(w) \/ ri_commit(w)
        \/ StorageFails(w)
        \/ Respond(w)

SpecRace == InitRace /\ [][NextRace]_vars

(* ----------------------------- GET /webhook --------------------------- *)
(* Values the query parameters of a GET /webhook can take. *)
ModeValues == {None, "", "subscribe", "unsubscribe"}
TokenValues == {None, "", "secret", "wrong"}
ChallengeValues == {None, "1158201444", "42"}

(* Python truth value of an optional string. *)
truthy(v) == v # None /\ v # ""

(* PlainTextResponse(content=...): None is rendered as the empty body. *)
render(content) == IF content = None THEN "" ELSE content

(* A GET /webhook arrives with its query parameters. *)
ReceiveVerify ==
    /\ vw_pc = "idle"
    /\ \E m \in ModeValues, t \in TokenValues, c \in ChallengeValues :
         query_params' = [mode |-> m, token |-> t, challenge |-> c]
    /\ vw_pc' = "verify_webhook"
    /\ UNCHANGED <<api, bot, VERIFY_TOKEN, vw_response>>

(* The body of the try block of verify_webhook: what it returns or raises. *)
verify_try(mode, token, challenge) ==
    IF truthy(mode) /\ truthy(token)
      THEN IF mode = "subscribe" /\ token = VERIFY_TOKEN
             THEN [raised |-> FALSE, status_code |-> 200,
                   content |-> render(challenge)]
           ELSE [raised |-> TRUE, status_code |-> 403,
                 content |-> "Token de verificacion invalido"]
    ELSE [raised |-> FALSE, status_code |-> 200,
          content |-> "Webhook endpoint esta funcionando."]

(* 'except Exception as e' of verify_webhook: HTTPException is an Exception, *)
(* so whatever the try block raised is replaced by HTTPException(500).       *)
verify_except(r) ==
    IF r.raised
      THEN [raised |-> TRUE, status_code |-> 500,
            content |-> "Error interno del servidor"]
    ELSE r

(* verify_webhook(request): the handler runs and the response is built. *)
verify_webhook ==
    /\ vw_pc = "verify_webhook"
    /\ LET r == verify_except(verify_try(query_params.mode, query_params.token,
                                         query_params.challenge))
       IN vw_response' = <<r.status_code, r.content>>
    /\ vw_pc' = "done"
    /\ UNCHANGED <<api, bot, VERIFY_TOKEN, query_params>>

(* The response of GET /webhook is sent. *)
RespondVerify ==
    /\ vw_pc = "done"
    /\ vw_pc' = "idle"
    /\ query_params' = NoParams
    /\ vw_response' = <<0, "">>
    /\ UNCHANGED <<api, bot, VERIFY_TOKEN>>

(* The API process starts with VERIFY_TOKEN set or unset in its environment. *)
InitWebhook ==
    /\ VERIFY_TOKEN \in {None, "secret"}
    /\ HookIdle
    /\ BotIdle
    /\ stock = [p \in Products |-> 200]
    /\ stock0 = stock
    /\ lines = [k \in Keys |-> <<>>]
    /\ lines0 = lines
    /\ carts = [c \in CartIds |-> IF c = 1 THEN 1 ELSE 0]
    /\ created_at = [c \in CartIds |-> 0]
    /\ updated_at = [c \in CartIds |-> 0]
    /\ now = 0
    /\ pool = maxconn
    /\ nextId = 2
    /\ pc = [w \in Workers |-> "idle"]
    /\ req = [w \in Workers |-> NoReq]
    /\ idx = [w \in Workers |-> 0]
    /\ cart_id = [w \in Workers |-> 0]
    /\ tx = [w \in Workers |-> NoTx]
    /\ status = [w \in Workers |-> 0]
    /\ err = [w \in Workers |-> ""]
    /\ pre = [w \in Workers |-> NoPre]
    /\ nreq = 0

(* GET /webhook requests, one at a time. *)
NextWebhook ==
    \/ ReceiveVerify
    \/ verify_webhook
    \/ RespondVerify

SpecWebhook == InitWebhook /\ [][NextWebhook]_vars

(* ------------------------ AIService.get_response ---------------------- *)
(* max_iterations = 100 *)
max_iterations == 100

(* The most parts a response of the model carries. *)
MaxParts == 2

(* Names the model can put in a function call: one that tools_map holds    *)
(* and one it does not.                                                    *)
tools_map == {"search_products"}
FunctionNames == {"search_products", "cancel_order"}

(* A part of candidate.content.parts: text, or a function call by name. *)
PartKinds == {"text"} \cup FunctionNames

PartLists == UNION {[1..n -> PartKinds] : n \in 0..MaxParts}

IsFunctionCall(part) == part \in FunctionNames

(* What response.text gives for a response with these parts: the text of   *)
(* text parts (possibly empty); with no part to read, the empty string or   *)
(* a ValueError.                                                            *)
TextOf(parts) ==
    IF parts = <<>> THEN {"", "ValueError"}
    ELSE IF \E i \in 1..Len(parts) : IsFunctionCall(parts[i]) THEN {""}
    ELSE {"", "Hola"}

(* The responses chat.send_message can return, as                          *)
(* <<has candidates, parts of candidates[0].content, response.text>>.      *)
Responses ==
    {<<FALSE, <<>>, t>> : t \in TextOf(<<>>)}
      \cup UNION {{<<TRUE, ps, t>> : t \in TextOf(ps)} : ps \in PartLists}

candidates(r) == r[1]
parts(r) == r[2]
text(r) == r[3]

(* The exceptions chat.send_message can raise, as <<status_code, code>>    *)
(* attributes (0 when the attribute is absent or None).                    *)
SendErrors == {<<0, 0>>, <<429, 0>>, <<0, 429>>, <<500, 429>>, <<0, 503>>}

(* status_code = getattr(e, 'status_code', None) or getattr(e, 'code', None) *)
status_code_of(e) == IF e[1] # 0 THEN e[1] ELSE e[2]

limit_message == "He procesado tu solicitud, pero tomo mas tiempo del esperado."
completed_message == "Operacion completada."
quota_message == "Lo siento, se alcanzo el limite de consultas en el dia."
apology_message == "Lo siento, hubo un error interno procesando tu solicitud."
tool_not_found == "Error: Herramienta no encontrada."
tool_failed == "Error ejecutando"
tool_returned == "resultado"

(* get_response(phone_number, user_message) is called: the chat session of *)
(* the phone is created if it has none.                                    *)
get_response(phones) ==
    /\ ai_pc = "idle"
    /\ \E ph \in phones :
         /\ ai_phone' = ph
         /\ chat_sessions' = chat_sessions \cup {ph}
    /\ ai_pc' = "send_message"
    /\ UNCHANGED <<api, hook, iteration, response, function_calls,
                   function_responses, exc, ai_result, rounds>>

(* response = chat.send_message(full_message); iteration = 0 *)
send_message ==
    /\ ai_pc = "send_message"
    /\ \/ /\ response' \in Responses
          /\ iteration' = 0
          /\ ai_pc' = "while"
          /\ UNCHANGED exc
       \/ /\ exc' \in SendErrors
          /\ ai_pc' = "except"
          /\ UNCHANGED <<response, iteration>>
    /\ UNCHANGED <<api, hook, chat_sessions, ai_phone, function_calls,
                   function_responses, ai_result, rounds>>

(* Variant: the loop condition admits one more iteration. *)
while_loop_le ==
    /\ ai_pc = "while"
    /\ IF iteration <= max_iterations
         THEN /\ iteration' = iteration + 1
              /\ LET fcs == SelectSeq(parts(response), IsFunctionCall) IN
                 IF ~candidates(response) \/ parts(response) = <<>> \/ fcs = <<>>
                   THEN /\ ai_pc' = "after"
                        /\ UNCHANGED <<function_calls, function_responses>>
                 ELSE /\ function_calls' = fcs
                      /\ function_responses' = <<>>
                      /\ ai_pc' = "tools"
       ELSE /\ ai_pc' = "after"
            /\ UNCHANGED <<iteration, function_calls, function_responses>>
    /\ UNCHANGED <<api, hook, chat_sessions, ai_phone, response, exc,
                   ai_result, rounds>>

(* while iteration < max_iterations: iteration += 1, then the breaks (no    *)
(* candidates, no parts, no function calls) or the function calls to run.   *)
while_loop ==
    /\ ai_pc = "while"
    /\ IF iteration < max_iterations
         THEN /\ iteration' = iteration + 1
              /\ LET fcs == SelectSeq(parts(response), IsFunctionCall) IN
                 IF ~candidates(response) \/ parts(response) = <<>> \/ fcs = <<>>
                   THEN /\ ai_pc' = "after"
                        /\ UNCHANGED <<function_calls, function_responses>>
                 ELSE /\ function_calls' = fcs
                      /\ function_responses' = <<>>
                      /\ ai_pc' = "tools"
       ELSE /\ ai_pc' = "after"
            /\ UNCHANGED <<iteration, function_calls, function_responses>>
    /\ UNCHANGED <<api, hook, chat_sessions, ai_phone, response, exc,
                   ai_result, rounds>>

(* The results a call of tools_map[func_name] can have: the tool returns    *)
(* or raises; a name that tools_map lacks gives the not-found string.       *)
tool_results(func_name) ==
    IF func_name \in tools_map THEN {tool_returned, tool_failed}
    ELSE {tool_not_found}

(* Variant: the call of the tool has no try/except of its own; a tool that  *)
(* raises takes get_response to its outer except clause.                   *)
execute_tool_uncaught ==
    /\ ai_pc = "tools"
    /\ Len(function_responses) < Len(function_calls)
    /\ LET func_name == function_calls[Len(function_responses) + 1] IN
       \E tool_result \in tool_results(func_name) :
         IF tool_result = tool_failed
           THEN /\ exc' = <<0, 0>>
                /\ ai_pc' = "except"
                /\ UNCHANGED function_responses
         ELSE /\ function_responses' =
                   Append(function_responses, <<func_name, tool_result>>)
              /\ UNCHANGED <<exc, ai_pc>>
    /\ UNCHANGED <<api, hook, chat_sessions, ai_phone, iteration,
                   response, function_calls, ai_result, rounds>>

(* for fc in function_calls: the next call is executed and its              *)
(* FunctionResponse is appended.                                            *)
execute_tool ==
    /\ ai_pc = "tools"
    /\ Len(function_responses) < Len(function_calls)
    /\ LET func_name == function_calls[Len(function_responses) + 1] IN
       \E tool_result \in tool_results(func_name) :
         function_responses' =
           Append(function_responses, <<func_name, tool_result>>)
    /\ UNCHANGED <<api, hook, chat_sessions, ai_pc, ai_phone, iteration,
                   response, function_calls, exc, ai_result, rounds>>

(* response = chat.send_message(function_responses) *)
send_results ==
    /\ ai_pc = "tools"
    /\ Len(function_responses) = Len(function_calls)
    /\ IF function_responses # <<>>
         THEN \/ /\ response' \in Responses
                 /\ rounds' = rounds + 1
                 /\ ai_pc' = "while"
                 /\ UNCHANGED exc
              \/ /\ exc' \in SendErrors
                 /\ ai_pc' = "except"
                 /\ UNCHANGED <<response, rounds>>
       ELSE /\ ai_pc' = "after"
            /\ UNCHANGED <<response, rounds, exc>>
    /\ UNCHANGED <<api, hook, chat_sessions, ai_phone, iteration,
                   function_calls, function_responses, ai_result>>

(* After the loop: the limit message, or response.text, or the fallback. *)
after_loop ==
    /\ ai_pc = "after"
    /\ IF iteration >= max_iterations
         THEN /\ ai_result' = limit_message
              /\ ai_pc' = "done"
              /\ UNCHANGED exc
       ELSE IF text(response) = "ValueError"
         THEN /\ exc' = <<0, 0>>
              /\ ai_pc' = "except"
              /\ UNCHANGED ai_result
       ELSE /\ ai_result' = IF text(response) # "" THEN text(response)
                            ELSE completed_message
            /\ ai_pc' = "done"
            /\ UNCHANGED exc
    /\ UNCHANGED <<api, hook, chat_sessions, ai_phone, iteration, response,
                   function_calls, function_responses, rounds>>

(* except Exception as e: the apology for status 429 or the general one. *)
except_handler ==
    /\ ai_pc = "except"
    /\ ai_result' = IF status_code_of(exc) = 429 THEN quota_message
                    ELSE apology_message
    /\ ai_pc' = "done"
    /\ UNCHANGED <<api, hook, chat_sessions, ai_phone, iteration, response,
                   function_calls, function_responses, exc, rounds>>

(* The caller has the returned string; the locals of the call are gone. *)
Replied ==
    /\ ai_pc = "done"
    /\ ai_pc' = "idle"
    /\ ai_phone' = 0
    /\ iteration' = 0
    /\ response' = NoResponse
    /\ function_calls' = <<>>
    /\ function_responses' = <<>>
    /\ exc' = NoExc
    /\ ai_result' = ""
    /\ rounds' = 0
    /\ UNCHANGED <<api, hook, chat_sessions>>

(* The steps of a running get_response. *)
BotStep ==
    \/ send_message
    \/ while_loop
    \/ execute_tool
    \/ send_results
    \/ after_loop
    \/ except_handler

(* The bot process starts; the API it calls is at rest. *)
InitBot == InitWebhook /\ VERIFY_TOKEN = "secret"

(* WhatsApp messages, one at a time. *)
NextBot ==
    \/ get_response(Phones)
    \/ BotStep
    \/ Replied

SpecBot == InitBot /\ [][NextBot]_vars

(* get_response is synchronous: once called, its next step is taken. *)
LiveBot == SpecBot /\ WF_vars(BotStep)

(* ======================= properties of the claims ===================== *)
(* Worker w has finished (and not yet answered) its request. *)
Done(w) == pc[w] = "done"

(* The request of w is a PATCH whose only item is it, for an existing cart. *)
SingleUpdate(w) ==
    /\ req[w].kind = "update"
    /\ Len(req[w].items) = 1
    /\ status[w] # 404

StoreError(w) == err[w] \in {"StorageUnavailable", "IntegrityError"}

FirstItem(w) == req[w].items[1]
FirstKey(w) == <<cart_id[w], FirstItem(w).product_id>>

StoreIsPre(w) ==
    /\ stock = pre[w].stock
    /\ lines = pre[w].lines
    /\ carts = pre[w].carts

(* Nothing but the stock of p and the line k differs from the store at the *)
(* start of the request of w.                                              *)
OnlyTouched(w, p, k) ==
    /\ \A o \in Products \ {p} : stock[o] = pre[w].stock[o]
    /\ \A j \in Keys \ {k} : lines[j] = pre[w].lines[j]
    /\ carts = pre[w].carts

RECURSIVE SumQty(_)
SumQty(S) ==
    IF S = {} THEN 0
    ELSE LET w == CHOOSE v \in S : TRUE
         IN FirstItem(w).qty + SumQty(S \ {w})

(* C1: when the only requests ever received are concurrent single adds of  *)
(* one product, the quantities of the adds that succeeded sum to at most   *)
(* the stock the product had, and an add the store did not fail reports    *)
(* insufficient stock.                                                     *)
C1_ConcurrentAddsNeverOversell ==
    \A p \in Products :
      LET adds == {w \in Workers :
                     /\ Done(w) /\ SingleUpdate(w)
                     /\ FirstItem(w).product_id = p
                     /\ FirstItem(w).qty \in ALLOWED_QUANTITIES}
          ok == {w \in adds : status[w] = 200}
      IN (adds = Workers /\ nreq = NWorkers) =>
           /\ SumQty(ok) <= stock0[p]
           /\ \A w \in adds \ ok : ~StoreError(w) => err[w] = "InsufficientStock"

(* C2: no product has stock < 0. *)
C2_StockNonNegative == \A p \in Products : stock[p] >= 0

(* C3: a request that adds lot d of a product not yet in the cart and then *)
(* decreases it by d leaves the stock as it was and no line for it.        *)
C3_AddThenDecreaseRoundTrip ==
    \A w \in Workers :
      (/\ Done(w) /\ status[w] = 200 /\ req[w].kind = "update"
       /\ Len(req[w].items) = 2
       /\ FirstItem(w).qty \in ALLOWED_QUANTITIES
       /\ req[w].items[2] = Item(FirstItem(w).product_id, - FirstItem(w).qty)
       /\ pre[w].lines[FirstKey(w)] = <<>>)
      => /\ stock[FirstItem(w).product_id] = pre[w].stock[FirstItem(w).product_id]
         /\ lines[FirstKey(w)] = <<>>

(* C4: every cart line has quantity > 0. *)
C4_LinesPositive ==
    \A k \in Keys : \A i \in 1..Len(lines[k]) : lines[k][i] > 0

(* Every request received so far is still held by a worker, and the other  *)
(* workers' requests name other products than the first item of w.         *)
Isolated(w) ==
    /\ nreq = Cardinality({v \in Workers : pc[v] # "idle"})
    /\ \A v \in Workers \ {w} :
         \A i \in 1..Len(req[v].items) :
           req[v].items[i].product_id # FirstItem(w).product_id

(* The quantity of the line of key k in row set rows (0 when absent). *)
LineQty(rows) == IF rows = <<>> THEN 0 ELSE rows[1]

(* The single item of w is an add of a lot, or a decrease by a lot of a     *)
(* line that held more than the lot when the request was received.         *)
AddOrPartialDecrease(w) ==
    \/ FirstItem(w).qty \in ALLOWED_QUANTITIES
    \/ /\ - FirstItem(w).qty \in ALLOWED_QUANTITIES
       /\ LineQty(pre[w].lines[FirstKey(w)]) > - FirstItem(w).qty

C6_InvalidLotRejected ==
    \A w \in Workers :
      (/\ req[w].kind = "update" /\ cart_id[w] # 0 /\ idx[w] <= Len(req[w].items)
       /\ CurItem(w).qty # 0 /\ abs(CurItem(w).qty) \notin ALLOWED_QUANTITIES)
      => /\ Done(w) /\ status[w] = 500 /\ err[w] = "InvalidLotSize"
         /\ tx[w] = NoTx
         /\ idx[w] = 1 => StoreIsPre(w)

C6_Witness ==
    \E w \in Workers :
      /\ Done(w) /\ SingleUpdate(w) /\ err[w] = "InvalidLotSize"
      /\ FirstItem(w).qty < 0
      /\ lines[FirstKey(w)] # <<>>

(* C7: a single add of lot d fails with InsufficientStock and changes       *)
(* nothing when the stock is < d, and succeeds when the stock is >= d.      *)
C7_StockCheck ==
    \A w \in Workers :
      (/\ Done(w) /\ SingleUpdate(w) /\ ~StoreError(w)
       /\ FirstItem(w).qty \in ALLOWED_QUANTITIES)
      => IF pre[w].stock[FirstItem(w).product_id] < FirstItem(w).qty
           THEN status[w] = 500 /\ err[w] = "InsufficientStock" /\ StoreIsPre(w)
         ELSE status[w] = 200 /\ err[w] = ""

C7_Witness ==
    \E w \in Workers :
      /\ Done(w) /\ SingleUpdate(w) /\ err[w] = "InsufficientStock"
      /\ FirstItem(w).qty = 100
      /\ pre[w].stock[FirstItem(w).product_id] = 60

(* C8: a successful single add of lot d takes d from the stock of the       *)
(* product, adds d to the line (or creates it with d), and changes no other *)
(* stock, line or cart.                                                     *)
C8_AddEffect ==
    \A w \in Workers :
      (/\ Done(w) /\ SingleUpdate(w) /\ status[w] = 200
       /\ FirstItem(w).qty \in ALLOWED_QUANTITIES)
      => LET p == FirstItem(w).product_id
             k == FirstKey(w)
             d == FirstItem(w).qty
         IN /\ stock[p] = pre[w].stock[p] - d
            /\ lines[k] = <<LineQty(pre[w].lines[k]) + d>>
            /\ OnlyTouched(w, p, k)

C8_Witness ==
    \E w \in Workers :
      /\ Done(w) /\ SingleUpdate(w) /\ status[w] = 200
      /\ FirstItem(w).qty = 50
      /\ pre[w].lines[FirstKey(w)] = <<100>>
      /\ lines[FirstKey(w)] = <<150>>

(* C9: a single zero-quantity item is accepted, deletes the line of its      *)
(* (cart, product) and changes no stock and no other line.                   *)
C9_ZeroDeltaRemoves ==
    \A w \in Workers :
      (/\ Done(w) /\ SingleUpdate(w) /\ ~StoreError(w)
       /\ FirstItem(w).qty = 0)
      => /\ status[w] = 200
         /\ lines[FirstKey(w)] = <<>>
         /\ stock = pre[w].stock
         /\ OnlyTouched(w, FirstItem(w).product_id, FirstKey(w))

C9_Witness ==
    \E w \in Workers :
      /\ Done(w) /\ SingleUpdate(w) /\ status[w] = 200
      /\ FirstItem(w).qty = 0
      /\ pre[w].lines[FirstKey(w)] # <<>>
      /\ lines[FirstKey(w)] = <<>>

C11_DecreaseAbsentLine ==
    \A w \in Workers :
      (/\ Done(w) /\ SingleUpdate(w) /\ ~StoreError(w)
       /\ - FirstItem(w).qty \in ALLOWED_QUANTITIES
       /\ pre[w].lines[FirstKey(w)] = <<>>)
      => /\ status[w] = 500 /\ err[w] = "ItemNotInCart"
         /\ StoreIsPre(w)

C11_Witness ==
    \E w \in Workers :
      /\ Done(w) /\ SingleUpdate(w) /\ err[w] = "ItemNotInCart"
      /\ FirstItem(w).qty = -50
      /\ pre[w].lines[FirstKey(w)] = <<>>
      /\ \E k \in Keys : lines[k] # <<>>

(* C12: a single decrease by lot d of a line holding q > d leaves the line  *)
(* with q - d, adds d to the stock of the product, and changes no other     *)
(* stock, line or cart.                                                     *)
C12_PartialDecreaseEffect ==
    \A w \in Workers :
      (/\ Done(w) /\ SingleUpdate(w) /\ ~StoreError(w)
       /\ - FirstItem(w).qty \in ALLOWED_QUANTITIES
       /\ LineQty(pre[w].lines[FirstKey(w)]) > - FirstItem(w).qty)
      => LET p == FirstItem(w).product_id
             k == FirstKey(w)
             d == - FirstItem(w).qty
         IN /\ status[w] = 200
            /\ lines[k] = <<LineQty(pre[w].lines[k]) - d>>
            /\ stock[p] = pre[w].stock[p] + d
            /\ OnlyTouched(w, p, k)

C12_Witness ==
    \E w \in Workers :
      /\ Done(w) /\ SingleUpdate(w) /\ status[w] = 200
      /\ FirstItem(w).qty = -50
      /\ pre[w].lines[FirstKey(w)] = <<100>>
      /\ lines[FirstKey(w)] = <<50>>
      /\ stock[FirstItem(w).product_id] = pre[w].stock[FirstItem(w).product_id] + 50

(* The request of w is a POST /carts with exactly one initial item. *)
SingleCreate(w) ==
    /\ req[w].kind = "create"
    /\ Len(req[w].items) = 1

(* C13: create_cart with one initial item of lot q above the stock of its   *)
(* product fails with InsufficientStock, takes nothing from the stock and   *)
(* creates no line for the product.                                         *)
C13_CreateChecksStock ==
    \A w \in Workers :
      (/\ Done(w) /\ SingleCreate(w) /\ ~StoreError(w)
       /\ FirstItem(w).qty \in ALLOWED_QUANTITIES
       /\ pre[w].stock[FirstItem(w).product_id] < FirstItem(w).qty)
      => /\ err[w] = "InsufficientStock"
         /\ stock[FirstItem(w).product_id] = pre[w].stock[FirstItem(w).product_id]
         /\ cart_id[w] # 0 => lines[FirstKey(w)] = <<>>

(* C14: create_cart with one initial item of lot q <= stock of its product  *)
(* makes a new cart of the owner whose only row is (p, q) priced at the     *)
(* price of lot q, takes q from the stock of p and leaves the other stocks. *)
C14_CreateWithItem ==
    \A w \in Workers :
      (/\ Done(w) /\ SingleCreate(w) /\ ~StoreError(w)
       /\ FirstItem(w).qty \in ALLOWED_QUANTITIES
       /\ pre[w].stock[FirstItem(w).product_id] >= FirstItem(w).qty)
      => LET p == FirstItem(w).product_id
             q == FirstItem(w).qty
             tier == IF q = 50 THEN price_fivety_units(p)
                     ELSE IF q = 100 THEN price_one_hundred_units(p)
                     ELSE price_two_hundred_units(p)
         IN /\ status[w] = 201
            /\ cart_id[w] \in CartIds
            /\ pre[w].carts[cart_id[w]] = 0
            /\ carts[cart_id[w]] = req[w].phone_number
            /\ get_cart_items(cart_id[w])
                 = <<[product_id |-> p, qty |-> q, applied_price |-> tier,
                      subtotal |-> tier * q]>>
            /\ stock[p] = pre[w].stock[p] - q
            /\ \A o \in Products \ {p} : stock[o] = pre[w].stock[o]

C14_Witness ==
    \E w \in Workers :
      /\ Done(w) /\ SingleCreate(w) /\ status[w] = 201
      /\ FirstItem(w).qty = 200
      /\ pre[w].stock[FirstItem(w).product_id] = 200
      /\ stock[FirstItem(w).product_id] = 0
      /\ Len(get_cart_items(cart_id[w])) = 1
      /\ get_cart_items(cart_id[w])[1].applied_price
           = price_two_hundred_units(FirstItem(w).product_id)

(* The header of the cart of w is committed and was not there before. *)
HeaderCommitted(w) ==
    /\ cart_id[w] \in CartIds
    /\ pre[w].carts[cart_id[w]] = 0
    /\ carts[cart_id[w]] = req[w].phone_number

(* The quantity the first n items of a list carry for product p. *)
RECURSIVE SumItems(_, _, _)
SumItems(items, n, p) ==
    IF n = 0 THEN 0
    ELSE SumItems(items, n - 1, p)
           + (IF items[n].product_id = p THEN items[n].qty ELSE 0)

(* The new cart of w holds exactly the first n items of its request, and    *)
(* the stock has given exactly their quantities.                            *)
ItemsApplied(w, n) ==
    \A p \in Products :
      LET sum == SumItems(req[w].items, n, p) IN
      /\ lines[<<cart_id[w], p>>] = IF sum = 0 THEN <<>> ELSE <<sum>>
      /\ stock[p] = pre[w].stock[p] - sum

(* C15 as stated: when the second of two initial items fails validation or  *)
(* stock reservation, the header and the first item are committed.          *)
C15_FailedItemKeepsEarlier ==
    \A w \in Workers :
      (/\ Done(w) /\ req[w].kind = "create" /\ Len(req[w].items) = 2
       /\ \A c \in CartIds : pre[w].carts[c] # req[w].phone_number
       /\ \/ /\ err[w] = "InvalidLotSize"
             /\ validate_quantity(req[w].items[1].qty)
             /\ ~validate_quantity(req[w].items[2].qty)
          \/ err[w] = "InsufficientStock" /\ idx[w] = 2)
      => HeaderCommitted(w) /\ ItemsApplied(w, 1)

(* C15, amended: create_cart validates every item before it creates         *)
(* anything, so an invalid item anywhere in the list ends the request with  *)
(* InvalidLotSize and nothing created; the header is committed before any   *)
(* item is applied; and when applying item i fails, the header and exactly  *)
(* the items before i stay committed.                                       *)
C15_CreateValidatesFirst ==
    \A w \in Workers :
      req[w].kind = "create" =>
        /\ (\E i \in 1..Len(req[w].items) : ~validate_quantity(req[w].items[i].qty))
             => /\ Done(w) /\ err[w] = "InvalidLotSize"
                /\ cart_id[w] = 0 /\ StoreIsPre(w)
        /\ (stock # pre[w].stock \/ lines # pre[w].lines) => HeaderCommitted(w)
        /\ (Done(w) /\ StoreError(w))
             => IF cart_id[w] = 0 THEN StoreIsPre(w)
                ELSE HeaderCommitted(w) /\ ItemsApplied(w, idx[w] - 1)

C15_Witness ==
    \E w \in Workers :
      /\ Done(w) /\ req[w].kind = "create" /\ err[w] = "StorageUnavailable"
      /\ Len(req[w].items) = 2 /\ idx[w] = 2
      /\ HeaderCommitted(w)
      /\ lines[FirstKey(w)] = <<FirstItem(w).qty>>
      /\ stock[FirstItem(w).product_id]
           = pre[w].stock[FirstItem(w).product_id] - FirstItem(w).qty

(* C16: no phone number has more than one cart. *)
C16_OneCartPerOwner ==
    \A ph \in Phones : Cardinality(get_cart_header(ph)) <= 1

(* Two POST /carts for one phone without a cart ran together: one created    *)
(* the cart, the other was refused by the store.                            *)
C16_Witness ==
    \E w \in Workers, v \in Workers :
      /\ w # v /\ Done(w) /\ Done(v)
      /\ req[w].kind = "create" /\ req[v].kind = "create"
      /\ req[w].phone_number = req[v].phone_number
      /\ \A c \in CartIds : pre[w].carts[c] # req[w].phone_number
      /\ \A c \in CartIds : pre[v].carts[c] # req[v].phone_number
      /\ status[w] = 201 /\ err[v] = "IntegrityError"
      /\ Cardinality(get_cart_header(req[w].phone_number)) = 1

(* C17: a PATCH for a phone number without a cart is answered 404 as soon    *)
(* as the cart was looked up: no item is processed, no statement is issued, *)
(* and stock, lines and carts are as they were.                             *)
C17_CartNotFound ==
    \A w \in Workers :
      (/\ req[w].kind = "update" /\ pc[w] # "uc_get_cart"
       /\ \A c \in CartIds : pre[w].carts[c] # req[w].phone_number)
      => /\ Done(w) /\ status[w] = 404 /\ err[w] = "CartNotFound"
         /\ idx[w] = 1 /\ cart_id[w] = 0 /\ tx[w] = NoTx
         /\ StoreIsPre(w)

C17_Witness ==
    \E w \in Workers :
      /\ Done(w) /\ req[w].kind = "update" /\ status[w] = 404
      /\ Len(req[w].items) = 2
      /\ req[w].items[1].qty = 50 /\ req[w].items[2].qty = 0
      /\ get_cart_header(req[w].phone_number) = {}

(* C18: create_cart with no initial item for a phone number without a cart  *)
(* returns an id no cart had, the phone number then resolves to that cart   *)
(* alone, the cart has no rows, and no stock and no line has changed.       *)
C18_CreateEmpty ==
    \A w \in Workers :
      (/\ Done(w) /\ req[w].kind = "create" /\ req[w].items = <<>>
       /\ ~StoreError(w)
       /\ \A c \in CartIds : pre[w].carts[c] # req[w].phone_number)
      => /\ status[w] = 201
         /\ cart_id[w] \in CartIds
         /\ pre[w].carts[cart_id[w]] = 0
         /\ get_cart_header(req[w].phone_number) = {cart_id[w]}
         /\ get_cart_items(cart_id[w]) = <<>>
         /\ stock = pre[w].stock /\ lines = pre[w].lines
         /\ \A c \in CartIds \ {cart_id[w]} : carts[c] = pre[w].carts[c]

(* The empty cart got id 3 because a failed POST had consumed id 2. *)
C18_Witness ==
    \E w \in Workers :
      /\ Done(w) /\ req[w].kind = "create" /\ req[w].items = <<>>
      /\ status[w] = 201 /\ cart_id[w] = 3
      /\ carts[2] = 0 /\ carts[3] = req[w].phone_number

(* C19: a PATCH that ends with a validation error leaves stock, lines and   *)
(* carts as they were when it was received, whatever items preceded the     *)
(* failing one.                                                             *)
C19_ValidationErrorNoSideEffect ==
    \A w \in Workers :
      (/\ Done(w) /\ req[w].kind = "update"
       /\ err[w] \in {"InvalidLotSize", "InsufficientCartQuantity",
                      "ItemNotInCart"})
      => StoreIsPre(w)

(* C20: no (cart, product) pair has more than one cart_items row. *)
C20_OneLinePerProduct ==
    \A k \in Keys : Len(lines[k]) <= 1

(* Two adds of a product the cart did not hold ran together: both found no  *)
(* row to update, one inserted the line, the other's INSERT was refused.    *)
C20_Witness ==
    \E w \in Workers, v \in Workers :
      /\ w # v /\ Done(w) /\ Done(v)
      /\ SingleUpdate(w) /\ SingleUpdate(v)
      /\ FirstItem(w).qty > 0 /\ FirstItem(v).qty > 0
      /\ FirstKey(w) = FirstKey(v)
      /\ pre[w].lines[FirstKey(w)] = <<>> /\ pre[v].lines[FirstKey(v)] = <<>>
      /\ status[w] = 200 /\ err[v] = "IntegrityError"
      /\ lines[FirstKey(w)] = <<FirstItem(w).qty>>

(* C21: the quantity of every cart_items row is a multiple of 50. *)
C21_LotMultiples ==
    \A k \in Keys : \A i \in 1..Len(lines[k]) : lines[k][i] % 50 = 0

(* A line that accumulated to a quantity that is no single lot. *)
C21_Witness ==
    \E w \in Workers :
      /\ Done(w) /\ SingleUpdate(w) /\ status[w] = 200
      /\ FirstItem(w).qty = 50
      /\ lines[FirstKey(w)] = <<150>>

(* The number of cart_items rows of cart c. *)
RECURSIVE RowCount(_, _)
RowCount(c, p) ==
    IF p > NProducts THEN 0 ELSE Len(lines[<<c, p>>]) + RowCount(c, p + 1)

(* C22: the listing of a cart has one row per cart_items row; a row of      *)
(* quantity 50, 100 or 200 carries the price of that lot, a row of any      *)
(* other quantity the 50-unit price, and its subtotal is price x quantity.  *)
C22_ListingPrices ==
    \A c \in CartIds :
      LET rows == get_cart_items(c) IN
      /\ Len(rows) = RowCount(c, 1)
      /\ \A i \in 1..Len(rows) :
           LET r == rows[i]
               unit == IF r.qty = 50 THEN price_fivety_units(r.product_id)
                       ELSE IF r.qty = 100 THEN price_one_hundred_units(r.product_id)
                       ELSE IF r.qty = 200 THEN price_two_hundred_units(r.product_id)
                       ELSE price_fivety_units(r.product_id)
           IN /\ r.qty \in {lines[<<c, r.product_id>>][j] :
                               j \in 1..Len(lines[<<c, r.product_id>>])}
              /\ r.applied_price = unit
              /\ r.subtotal = unit * r.qty

(* A cart lists a line that accumulated to 300 at the 50-unit price. *)
C22_Witness ==
    \E c \in CartIds \ {1}, p \in Products :
      /\ lines[<<c, p>>] = <<300>>
      /\ \E i \in 1..Len(get_cart_items(c)) :
           /\ get_cart_items(c)[i].product_id = p
           /\ get_cart_items(c)[i].applied_price = price_fivety_units(p)
           /\ get_cart_items(c)[i].subtotal = 300 * price_fivety_units(p)

(* C23: a PATCH of one or two zero-quantity items for one product succeeds  *)
(* whether or not the line exists, and leaves the same store either way:    *)
(* the line absent, every stock, other line and cart as before.             *)
C23_RemoveIdempotent ==
    \A w \in Workers :
      (/\ Done(w) /\ req[w].kind = "update" /\ status[w] # 404
       /\ Len(req[w].items) >= 1
       /\ \A i \in 1..Len(req[w].items) :
            req[w].items[i] = Item(FirstItem(w).product_id, 0)
       /\ ~StoreError(w))
      => /\ status[w] = 200 /\ err[w] = ""
         /\ lines = [pre[w].lines EXCEPT ![FirstKey(w)] = <<>>]
         /\ stock = pre[w].stock
         /\ carts = pre[w].carts

(* The removal was applied twice to a line that existed. *)
C23_Witness ==
    \E w \in Workers :
      /\ Done(w) /\ req[w].kind = "update" /\ status[w] = 200
      /\ Len(req[w].items) = 2
      /\ req[w].items[1].qty = 0
      /\ req[w].items[2] = req[w].items[1]
      /\ pre[w].lines[FirstKey(w)] = <<100>>
      /\ lines[FirstKey(w)] = <<>>

ReadPcs == {"uc_get_cart", "atc_read", "dtc_read",
            "gp_select", "gc_header", "gi_header", "gi_items"}

(* C25: a read step changes no stock, line, cart or timestamp, a GET        *)
(* request changes none of them at any step, and the stock changes only in  *)
(* the step that commits add_item or dismiss_item.                          *)
C25_ReadsWriteNothing ==
    [][/\ \A w \in Workers :
            (\/ pc[w] \in ReadPcs
             \/ req[w].kind \in {"get_products", "get_cart", "get_cart_items"})
            => store' = store
       /\ stock' # stock
            => \E w \in Workers : pc[w] \in {"ai_commit", "di_commit"}]_vars

(* A listing of a cart that holds a line was answered. *)
C25_Witness ==
    \E w \in Workers :
      /\ Done(w) /\ req[w].kind = "get_cart_items" /\ status[w] = 200
      /\ cart_id[w] # 0
      /\ Len(get_cart_items(cart_id[w])) >= 1
      /\ StoreIsPre(w)

(* C26: a POST /carts with an initial item of quantity outside            *)
(* {50,100,200}, at any position, ends with InvalidLotSize without having   *)
(* issued a statement: no cart, no line, no stock change.                   *)
C26_CreateRejectsInvalidLot ==
    \A w \in Workers :
      (/\ req[w].kind = "create"
       /\ \E i \in 1..Len(req[w].items) :
            req[w].items[i].qty \notin ALLOWED_QUANTITIES)
      => /\ Done(w) /\ status[w] = 500 /\ err[w] = "InvalidLotSize"
         /\ cart_id[w] = 0 /\ tx[w] = NoTx /\ idx[w] = 1
         /\ StoreIsPre(w)
         /\ \A c \in CartIds : carts[c] = req[w].phone_number
                                 => pre[w].carts[c] = req[w].phone_number

(* The invalid item is the second one, after a valid first item, and the    *)
(* phone number has no cart.                                                *)
C26_Witness ==
    \E w \in Workers :
      /\ Done(w) /\ req[w].kind = "create" /\ err[w] = "InvalidLotSize"
      /\ Len(req[w].items) = 2
      /\ req[w].items[1].qty = 100 /\ req[w].items[2].qty = -50
      /\ get_cart_header(req[w].phone_number) = {}

(* The positions from which the next step commits the DAO call of an item. *)
CommitPcs == {"ai_commit", "di_commit", "ri_commit"}

(* C27: a PATCH moves through its items one by one in list order; the store *)
(* changes only in the step that commits the current item, which ends the  *)
(* transaction and writes nothing but that item's line and stock; a request *)
(* that failed stands at the failing item, and once a request has ended no  *)
(* further item is applied.                                                 *)
C27_InOrderStopAtFailure ==
    /\ [](\A w \in Workers :
            (Done(w) /\ req[w].kind = "update") =>
              /\ status[w] = 200 => idx[w] = Len(req[w].items) + 1
              /\ status[w] = 500 => idx[w] \in 1..Len(req[w].items)
              /\ tx[w] = NoTx)
    /\ [][\A w \in Workers :
            req[w].kind = "update" =>
              /\ idx'[w] \in {idx[w], idx[w] + 1, 0}
              /\ idx'[w] = idx[w] + 1 => pc[w] \in CommitPcs /\ tx'[w] = NoTx
              /\ store' # store
                   => /\ idx'[w] = idx[w] + 1
                      /\ \A k \in Keys \ {Key(w)} : lines'[k] = lines[k]
                      /\ \A o \in Products \ {CurItem(w).product_id} :
                           stock'[o] = stock[o]
              /\ Done(w) => store' = store /\ pc'[w] = "idle"]_vars

(* The second item failed after the first was committed. *)
C27_Witness ==
    \E w \in Workers :
      /\ Done(w) /\ req[w].kind = "update" /\ status[w] = 500
      /\ Len(req[w].items) = 2 /\ idx[w] = 2
      /\ err[w] = "InsufficientStock"
      /\ req[w].items[1].qty = 50
      /\ lines[FirstKey(w)] # pre[w].lines[FirstKey(w)]

(* Worker w is inside a get_cursor block: it holds a connection and an     *)
(* open transaction.                                                       *)
OpenTx(w) == pc[w] \in TxPcs \ FirstPcs

(* C28: every connection taken from the pool is held by exactly one open    *)
(* block, and outside a block a worker has no uncommitted write; the step   *)
(* that leaves a block returns its connection; when it leaves by an         *)
(* exception of the store nothing of the block persists and the request is  *)
(* answered 500, otherwise every write of the block persists.               *)
C28_GetCursor ==
    /\ [](/\ pool = maxconn - Cardinality({w \in Workers : OpenTx(w)})
          /\ \A w \in Workers : ~OpenTx(w) => tx[w] = NoTx)
    /\ [][\A w \in Workers :
            /\ (OpenTx(w) /\ pc'[w] \notin TxPcs \ FirstPcs)
                 => /\ pool' = pool + 1
                    /\ tx'[w] = NoTx
                    /\ IF err'[w] \in {"StorageUnavailable", "IntegrityError"}
                         THEN store' = store /\ status'[w] = 500
                       ELSE /\ tx[w].line = "upd" => lines'[Key(w)] = tx[w].lineVal
                            /\ tx[w].line = "ins"
                                 => lines'[Key(w)] = lines[Key(w)] \o tx[w].lineVal
                            /\ tx[w].stockW
                                 => stock'[CurItem(w).product_id]
                                      = stock[CurItem(w).product_id] + tx[w].stockDelta
                            /\ tx[w].touch => updated_at'[cart_id[w]] = tx[w].at
                            /\ tx[w].cart # 0
                                 => carts'[tx[w].cart] = req[w].phone_number
            /\ (err[w] = "" /\ err'[w] \in {"StorageUnavailable", "IntegrityError"})
                 => store' = store /\ status'[w] = 500 /\ tx'[w] = NoTx]_vars

(* A block failed after its statements while the other worker's block is    *)
(* open with both its writes pending.                                       *)
C28_Witness ==
    \E w \in Workers, v \in Workers :
      /\ w # v
      /\ Done(w) /\ err[w] = "StorageUnavailable" /\ StoreIsPre(w)
      /\ OpenTx(v) /\ tx[v].line # "none" /\ tx[v].stockW
      /\ pool = maxconn - 1

(* The sum of the quantities of a sequence of rows. *)
RECURSIVE RowSum(_)
RowSum(rows) ==
    IF rows = <<>> THEN 0 ELSE rows[1] + RowSum(Tail(rows))

(* The units of product p held by the lines L of carts c and above. *)
RECURSIVE Reserved(_, _, _)
Reserved(L, c, p) ==
    IF c > MaxCarts THEN 0
    ELSE RowSum(L[<<c, p>>]) + Reserved(L, c + 1, p)

(* C29: while a PATCH whose items are all adds or decreases is served, with *)
(* no other request running, the stock of every product plus the units of   *)
(* it held in carts is what it was when the request was received.           *)
C29_UnitsConserved ==
    \A w \in Workers :
      (/\ req[w].kind = "update"
       /\ \A i \in 1..Len(req[w].items) : req[w].items[i].qty # 0)
      => \A p \in Products :
           stock[p] + Reserved(lines, 1, p)
             = pre[w].stock[p] + Reserved(pre[w].lines, 1, p)

(* C30: the stock of a product never exceeds what it was at the start plus *)
(* the units carts held at the start: no more is released than reserved.    *)
C30_NoOverRelease ==
    \A p \in Products : stock[p] <= stock0[p] + Reserved(lines0, 1, p)

(* C31: whenever a step raises the stock of a product by d, the same step    *)
(* lowers the quantity of an existing line of that product by d: a decrease  *)
(* never releases stock without reducing a line.                             *)
C31_ReleaseReducesLine ==
    [][\A p \in Products :
         stock'[p] > stock[p]
         => \E c \in CartIds :
              /\ lines[<<c, p>>] # <<>>
              /\ RowSum(lines'[<<c, p>>])
                   = RowSum(lines[<<c, p>>]) - (stock'[p] - stock[p])]_vars

(* The workers whose request is a finished single add to an existing line   *)
(* of key k.                                                                *)
AddsTo(k) ==
    {w \in Workers :
       /\ Done(w) /\ SingleUpdate(w)
       /\ FirstItem(w).qty \in ALLOWED_QUANTITIES
       /\ FirstKey(w) = k}

(* C32: when the only requests ever received are two or more concurrent     *)
(* single adds to one existing line, then once all have finished the line   *)
(* holds its prior quantity plus the sum of the adds that succeeded, and    *)
(* the stock of the product has fallen by that sum.                         *)
C32_ConcurrentAddsNotLost ==
    \A k \in Keys :
      LET adds == AddsTo(k)
          ok == {w \in adds : status[w] = 200}
      IN (/\ lines0[k] # <<>>
          /\ Cardinality(adds) >= 2
          /\ nreq = Cardinality(adds))
         => /\ lines[k] = <<LineQty(lines0[k]) + SumQty(ok)>>
            /\ stock[k[2]] = stock0[k[2]] - SumQty(ok)

(* Two adds to the line of 100 overlapped (each was received with the line  *)
(* at 100) and both succeeded.                                              *)
C32_Witness ==
    \E w, v \in Workers :
      /\ w # v
      /\ nreq = 2
      /\ AddsTo(<<1, 1>>) = {w, v}
      /\ status[w] = 200 /\ status[v] = 200
      /\ pre[w].lines[<<1, 1>>] = <<100>> /\ pre[v].lines[<<1, 1>>] = <<100>>
      /\ FirstItem(w).qty = 50 /\ FirstItem(v).qty = 100
      /\ lines[<<1, 1>>] = <<250>>

(* C33: a GET /webhook whose hub.mode and hub.verify_token are both present *)
(* is answered 200 with the challenge as body when the mode is 'subscribe'  *)
(* and the token is VERIFY_TOKEN, and 403 otherwise.                        *)
C33_VerifyWebhook ==
    (/\ vw_pc = "done"
     /\ truthy(query_params.mode) /\ truthy(query_params.token))
    => IF query_params.mode = "subscribe" /\ query_params.token = VERIFY_TOKEN
         THEN vw_response = <<200, render(query_params.challenge)>>
       ELSE vw_response[1] = 403

(* C34: get_response terminates: a call that has started always reaches its *)
(* return; its loop counter and the number of function-response rounds sent *)
(* to the model never exceed max_iterations; and a call that has sent       *)
(* max_iterations rounds returns the fixed limit message.                   *)
C34_Terminates ==
    /\ [](iteration <= max_iterations /\ rounds <= max_iterations)
    /\ []((ai_pc = "done" /\ rounds = max_iterations)
            => ai_result = limit_message)
    /\ (ai_pc = "send_message") ~> (ai_pc = "done")

(* The model asked for tools in every response; the hundredth round was     *)
(* sent and the call returned the limit message.                            *)
C34_Witness ==
    /\ ai_pc = "done"
    /\ iteration = max_iterations
    /\ rounds = max_iterations
    /\ ai_result = limit_message

(* C35: a call that returns without an exception gives the limit message    *)
(* only when the last response still asked for function calls; when the     *)
(* last response has parts and none is a function call, the call returns    *)
(* the text of that response, or the fallback when the text is empty.       *)
C35_LimitOnlyWhenToolsPending ==
    (ai_pc = "done" /\ exc = NoExc)
    => LET fcs == SelectSeq(parts(response), IsFunctionCall) IN
       /\ ai_result = limit_message => fcs # <<>>
       /\ (candidates(response) /\ parts(response) # <<>> /\ fcs = <<>>)
          => ai_result = IF text(response) # "" THEN text(response)
                         ELSE completed_message

(* C36: get_response never raises and always returns a string. Each         *)
(* function call gets one function response, in the order of the calls: the *)
(* not-found string for a name tools_map lacks, the tool's result or the    *)
(* execution-error string otherwise; executing a call never leaves the      *)
(* loop, and the responses are sent only when every call has one. A call    *)
(* ended by an exception returns the quota apology for status 429 and the   *)
(* general apology otherwise.                                               *)
C36_NeverRaises ==
    /\ [](ai_pc # "raised")
    /\ [](ai_pc = "done" => ai_result # "")
    /\ [](/\ Len(function_responses) <= Len(function_calls)
          /\ \A i \in 1..Len(function_responses) :
               /\ function_responses[i][1] = function_calls[i]
               /\ function_responses[i][2] \in
                    (IF function_calls[i] \in tools_map
                       THEN {tool_returned, tool_failed}
                     ELSE {tool_not_found}))
    /\ []((ai_pc = "done" /\ exc # NoExc)
            => ai_result = IF status_code_of(exc) = 429 THEN quota_message
                           ELSE apology_message)
    /\ [][/\ (ai_pc = "tools" /\ Len(function_responses) < Len(function_calls))
             => /\ ai_pc' = "tools"
                /\ exc' = exc
                /\ Len(function_responses') = Len(function_responses) + 1
          /\ rounds' = rounds + 1
             => Len(function_responses) = Len(function_calls)]_vars

(* The model asked for an unknown tool and for a tool that raised; both got *)
(* their error string, the responses were sent, and that send_message was   *)
(* refused with status 429.                                                 *)
C36_Witness ==
    /\ ai_pc = "done"
    /\ function_calls = <<"cancel_order", "search_products">>
    /\ function_responses = << <<"cancel_order", tool_not_found>>,
                               <<"search_products", tool_failed>> >>
    /\ exc = <<0, 429>>
    /\ ai_result = quota_message

====
